---- MODULE Spec2Model ----
(***************************************************************************)
(* A model of queue.c: a queue of strings kept in a circular doubly linked *)
(* list with a sentinel (struct list_head), and its iterative merge sort.  *)
(*                                                                         *)
(* Nodes are small integers: the elements are 1..N, the sentinel that      *)
(* q_new allocates is N + 1, and NULL is the null pointer.  next/prev are  *)
(* the two link fields of every node, value is the string an element owns. *)
(* Strings are modelled by their rank in lexicographic order, so strcmp    *)
(* is integer comparison.                                                  *)
(***************************************************************************)
EXTENDS Integers, Sequences, FiniteSets, TLC

\* ------------------------------------------------------------- bounds
MaxNodes == 3        \* elements ever allocated in one run of Spec
NumValues == 2       \* distinct strings
MaxLen == 7          \* longest input list of SpecSort
MaxFifo == 3         \* longest insertion sequence of SpecFifo
MaxPairs == 2        \* small inputs of SpecCap
MaxXLen == 5         \* longest input list of SpecXform
MaxOps == 2          \* operations applied in one run of SpecXform
MaxCap == 4          \* largest output buffer of SpecBuf

\* ------------------------------------------------- program constants
NULL == 0
StackCap == 1000     \* struct list_head *stack[1000]
ListsCap == 100000   \* struct list_head *lists[100000]

Values == 1..NumValues
Malloc == {"ok", "no_element", "no_string"}

VARIABLES
    head,       \* the list handle the caller holds: the sentinel, or NULL
    next,       \* next[n]: n->next
    prev,       \* prev[n]: n->prev
    value,      \* value[e]: e->value (0: no string)
    status,     \* status[e]: "free" (not allocated yet), "linked", "owned"
                \* (by the caller), "deleted" (released)
    frees,      \* frees[n]: how many times the storage of node n was freed
    allocated,  \* blocks obtained from malloc/strdup and not freed yet
    arg,        \* the last call: [s, m, sp, bufsize], the string stored, how
                \* the allocations went, the buffer given and its size
    buf,        \* the caller's output buffer sp[0..bufsize-1], as a sequence
    written,    \* the number of leading bytes of sp the last call wrote to
    lastOp,     \* the operation that returned last
    ret,        \* what it returned
    pc,         \* list_mergesort: "idle", "split", "merge", "relink", "done", "ub"
    stack,      \* list_mergesort: stack[0..top], as a sequence
    top,        \* list_mergesort: top
    lists,      \* list_mergesort: lists[0..listsSize-1], as a sequence
    listsSize,  \* list_mergesort: listsSize
    sorts,      \* SpecSort: sorts completed
    first,      \* SpecSort: the values after the first sort
    mode,       \* SpecFifo: <<end inserted at, end removed from>>
    ins,        \* SpecFifo: the values inserted, in order
    out,        \* SpecFifo: the values removed, in order
    trace       \* SpecXform: the operations applied so far

heap == <<head, next, prev, value, status, frees, allocated>>
call == <<arg, buf, written>>
machine == <<pc, stack, top, lists, listsSize>>
sortGhost == <<sorts, first>>
fifo == <<mode, ins, out>>
vars == <<head, next, prev, value, status, frees, allocated, arg, buf,
          written, lastOp, ret, pc, stack, top, lists, listsSize, sorts,
          first, mode, ins, out, trace>>

\* ------------------------------------------------------------ helpers
Range(s) == {s[i] : i \in 1..Len(s)}

Reverse(s) == [i \in 1..Len(s) |-> s[Len(s) + 1 - i]]

RECURSIVE Walk(_, _, _, _)
\* The nodes met from n following the link field f until the sentinel h
\* (at most k of them).
Walk(f, n, h, k) ==
    IF n = h \/ n = NULL \/ k = 0 THEN <<>>
    ELSE <<n>> \o Walk(f, f[n], h, k - 1)

NodeCount == Cardinality(DOMAIN next)

\* head-to-tail and tail-to-head traversal of the list
Fwd == IF head = NULL THEN <<>> ELSE Walk(next, next[head], head, NodeCount)
Bwd == IF head = NULL THEN <<>> ELSE Walk(prev, prev[head], head, NodeCount)
FwdValues == [i \in 1..Len(Fwd) |-> value[Fwd[i]]]

Linked == {e \in DOMAIN status : status[e] = "linked"}
Owned == {e \in DOMAIN status : status[e] = "owned"}
Deleted == {e \in DOMAIN status : status[e] = "deleted"}
Free == {e \in DOMAIN status : status[e] = "free"}

\* --------------------------------------------------- link primitive
list_empty(nx, h) == nx[h] = h

list_is_singular(nx, pv, h) == ~list_empty(nx, h) /\ pv[h] = nx[h]

INIT_LIST_HEAD(nx, pv, h) ==
    [next |-> [nx EXCEPT ![h] = h], prev |-> [pv EXCEPT ![h] = h]]

list_add(nx, pv, node, h) ==
    LET nxt == nx[h]
        pv1 == [pv EXCEPT ![nxt] = node]
        nx1 == [nx EXCEPT ![node] = nxt]
        pv2 == [pv1 EXCEPT ![node] = h]
        nx2 == [nx1 EXCEPT ![h] = node]
    IN  [next |-> nx2, prev |-> pv2]

list_add_tail(nx, pv, node, h) ==
    LET prv == pv[h]
        nx1 == [nx EXCEPT ![prv] = node]
        nx2 == [nx1 EXCEPT ![node] = h]
        pv1 == [pv EXCEPT ![node] = prv]
        pv2 == [pv1 EXCEPT ![h] = node]
    IN  [next |-> nx2, prev |-> pv2]

\* unlink node; its own two fields are poisoned
list_del(nx, pv, node) ==
    LET nxt == nx[node]
        prv == pv[node]
        pv1 == [pv EXCEPT ![nxt] = prv]
        nx1 == [nx EXCEPT ![prv] = nxt]
    IN  [next |-> [nx1 EXCEPT ![node] = NULL],
         prev |-> [pv1 EXCEPT ![node] = NULL]]

list_del_init(nx, pv, node) ==
    LET l == list_del(nx, pv, node)
    IN  INIT_LIST_HEAD(l.next, l.prev, node)

list_move(nx, pv, node, h) ==
    LET l == list_del(nx, pv, node)
    IN  list_add(l.next, l.prev, node, h)

list_move_tail(nx, pv, node, h) ==
    LET l == list_del(nx, pv, node)
    IN  list_add_tail(l.next, l.prev, node, h)

\* move all nodes of list to the front of h, leaving list empty
list_splice(nx, pv, list, h) ==
    IF list_empty(nx, list) THEN [next |-> nx, prev |-> pv]
    ELSE LET head_first == nx[h]
             list_first == nx[list]
             list_last == pv[list]
             nx1 == [nx EXCEPT ![h] = list_first, ![list_last] = head_first]
             pv1 == [pv EXCEPT ![list_first] = h, ![head_first] = list_last]
         IN  INIT_LIST_HEAD(nx1, pv1, list)

\* move all nodes of list to the back of h, leaving list empty
list_splice_tail(nx, pv, list, h) ==
    IF list_empty(nx, list) THEN [next |-> nx, prev |-> pv]
    ELSE LET head_last == pv[h]
             list_first == nx[list]
             list_last == pv[list]
             nx1 == [nx EXCEPT ![head_last] = list_first, ![list_last] = h]
             pv1 == [pv EXCEPT ![h] = list_last, ![list_first] = head_last]
         IN  INIT_LIST_HEAD(nx1, pv1, list)

\* ------------------------------------------------------- allocation
\* The state after q_new, with room for N elements: the sentinel
\* initialised (ok), or no list at all (malloc returned NULL).
q_new(ok, N) ==
    /\ head = IF ok THEN N + 1 ELSE NULL
    /\ next = [n \in 1..(N + 1) |-> IF n = N + 1 /\ ok THEN n ELSE NULL]
    /\ prev = [n \in 1..(N + 1) |-> IF n = N + 1 /\ ok THEN n ELSE NULL]
    /\ value = [e \in 1..N |-> 0]
    /\ status = [e \in 1..N |-> "free"]
    /\ frees = [n \in 1..(N + 1) |-> 0]
    /\ allocated = IF ok THEN 1 ELSE 0

\* malloc(sizeof(element_t)): elements are numbered in allocation order
NewElement == CHOOSE e \in Free : \A o \in Free : e <= o

\* the memory of the elements as one record, and its assignment
Heap == [next |-> next, prev |-> prev, value |-> value, status |-> status,
         frees |-> frees, allocated |-> allocated]

Store(d) ==
    /\ next' = d.next
    /\ prev' = d.prev
    /\ value' = d.value
    /\ status' = d.status
    /\ frees' = d.frees
    /\ allocated' = d.allocated

\* free(e->value); free(e);
q_release_element(d, e) ==
    [d EXCEPT !.value = [@ EXCEPT ![e] = 0],
              !.status = [@ EXCEPT ![e] = "deleted"],
              !.frees = [@ EXCEPT ![e] = @ + 1],
              !.allocated = @ - 2]

\* list_del(&e->list); q_release_element(e);
list_del_release(d, e) ==
    LET l == list_del(d.next, d.prev, e)
    IN  q_release_element([d EXCEPT !.next = l.next, !.prev = l.prev], e)

\* ------------------------------------------------------- arguments
NoArg == [s |-> 0, m |-> "none", sp |-> FALSE, bufsize |-> 0]

\* q_insert_head / q_insert_tail called with a string s while the
\* allocations go as m says; the string is recorded when it is stored
Inserting(s, m) ==
    [NoArg EXCEPT !.s = IF head # NULL /\ m = "ok" THEN s ELSE 0, !.m = m]

\* a call that takes no string and no buffer
NoCall ==
    /\ arg' = NoArg
    /\ buf' = <<>>
    /\ written' = 0

\* the bytes of the string of rank v (without its terminator): the
\* strings are "a", "ab", "abc", ..., whose order is the order of the ranks
Text(v) == [i \in 1..v |-> i]

\* a byte that occurs in no string
Fill == NumValues + 1

\* the caller's buffer of c bytes before the call
Fresh(c) == [i \in 1..c |-> Fill]

\* size_t is an unsigned type of SizeBits bits
SizeBits == 16
SizeMod == 2 ^ SizeBits

\* strncpy(sp, e->value, bufsize - 1); sp[bufsize - 1] = '\0';
\* n is bufsize - 1 in size_t arithmetic.  strncpy writes sp[0..n-1], the
\* text and then zeros; the assignment writes sp[n].  dst is the buffer
\* the caller owns; written says how far the writes reach.
copy_out(dst, text, bufsize) ==
    LET n == (bufsize - 1) % SizeMod
    IN  [buf |-> [i \in 1..Len(dst) |->
                      IF i <= n
                      THEN IF i <= Len(text) THEN text[i] ELSE 0
                      ELSE IF i = n + 1 THEN 0 ELSE dst[i]],
         written |-> n + 1]

\* ----------------------------------------------------------- q_free
RECURSIVE free_loop_unlink_only(_)
\* the loop of q_free without q_release_element(e)
free_loop_unlink_only(d) ==
    IF ~list_empty(d.next, head)
    THEN LET l == list_del(d.next, d.prev, d.next[head])
         IN  free_loop_unlink_only([d EXCEPT !.next = l.next, !.prev = l.prev])
    ELSE d

RECURSIVE free_loop(_)
\* while (l && !list_empty(l)) { e = first; list_del; q_release_element }
free_loop(d) ==
    IF ~list_empty(d.next, head)
    THEN free_loop(list_del_release(d, d.next[head]))
    ELSE d

\* After q_free the caller's handle is dead: the caller holds no list.
q_free ==
    /\ lastOp' = "q_free"
    /\ ret' = "void"
    /\ NoCall
    /\ IF head = NULL
       THEN UNCHANGED heap
       ELSE LET d == free_loop(Heap)
            IN  /\ Store([d EXCEPT !.frees = [@ EXCEPT ![head] = @ + 1],
                                   !.allocated = @ - 1])
                /\ head' = NULL

\* ---------------------------------------------------- q_insert_head
\* err_ele: if (e) free(e);  -- a blocks are allocated, e says whether
\* the element is one of them
err_ele(a, e) == IF e THEN a - 1 ELSE a

\* err_str: if (e->value) free(e->value); and then err_ele
err_str(a, v, e) == err_ele(IF v THEN a - 1 ELSE a, e)

\* the blocks allocated after a call in which malloc or strdup failed,
\* with the element never freed
insert_failed_keep_element(a, m) ==
    IF m = "no_element" THEN a ELSE a + 1

\* the blocks allocated after a call in which malloc (m = "no_element")
\* or strdup (m = "no_string") returned NULL
insert_failed(a, m) ==
    IF m = "no_element" THEN err_ele(a, FALSE) ELSE err_str(a + 1, FALSE, TRUE)

q_insert_head(s, m) ==
    /\ lastOp' = "q_insert_head"
    /\ arg' = Inserting(s, m)
    /\ buf' = <<>>
    /\ written' = 0
    /\ IF head = NULL
       THEN ret' = FALSE /\ UNCHANGED heap
       ELSE IF m # "ok"
       THEN /\ ret' = FALSE
            /\ allocated' = insert_failed(allocated, m)
            /\ UNCHANGED <<head, next, prev, value, status, frees>>
       ELSE /\ Free # {}
            /\ LET e == NewElement
                   l == list_add(next, prev, e, head)
               IN  /\ value' = [value EXCEPT ![e] = s]
                   /\ status' = [status EXCEPT ![e] = "linked"]
                   /\ next' = l.next
                   /\ prev' = l.prev
            /\ allocated' = allocated + 2
            /\ ret' = TRUE
            /\ UNCHANGED <<head, frees>>

\* q_insert_tail linking the element with list_add instead of list_add_tail
q_insert_tail_list_add(s, m) ==
    /\ lastOp' = "q_insert_tail"
    /\ arg' = Inserting(s, m)
    /\ buf' = <<>>
    /\ written' = 0
    /\ IF head = NULL \/ m # "ok"
       THEN ret' = FALSE /\ UNCHANGED heap
       ELSE /\ Free # {}
            /\ LET e == NewElement
                   l == list_add(next, prev, e, head)
               IN  /\ value' = [value EXCEPT ![e] = s]
                   /\ status' = [status EXCEPT ![e] = "linked"]
                   /\ next' = l.next
                   /\ prev' = l.prev
            /\ allocated' = allocated + 2
            /\ ret' = TRUE
            /\ UNCHANGED <<head, frees>>

\* ---------------------------------------------------- q_insert_tail
q_insert_tail(s, m) ==
    /\ lastOp' = "q_insert_tail"
    /\ arg' = Inserting(s, m)
    /\ buf' = <<>>
    /\ written' = 0
    /\ IF head = NULL
       THEN ret' = FALSE /\ UNCHANGED heap
       ELSE IF m # "ok"
       THEN /\ ret' = FALSE
            /\ allocated' = insert_failed(allocated, m)
            /\ UNCHANGED <<head, next, prev, value, status, frees>>
       ELSE /\ Free # {}
            /\ LET e == NewElement
                   l == list_add_tail(next, prev, e, head)
               IN  /\ value' = [value EXCEPT ![e] = s]
                   /\ status' = [status EXCEPT ![e] = "linked"]
                   /\ next' = l.next
                   /\ prev' = l.prev
            /\ allocated' = allocated + 2
            /\ ret' = TRUE
            /\ UNCHANGED <<head, frees>>

\* ---------------------------------------------------- q_remove_head
\* remove_element releasing the element it unlinks
remove_element_released(e, sp, bufsize) ==
    /\ buf' = <<>>
    /\ written' = 0
    /\ Store(list_del_release(Heap, e))
    /\ ret' = e
    /\ UNCHANGED <<head, pc>>

\* The body of q_remove_head / q_remove_tail on a list that is not empty,
\* e being head->next / head->prev.  sp says whether the caller supplied
\* a buffer (of bufsize bytes).  A write past the end of the buffer is
\* undefined behaviour: nothing is modelled of the call after it.
remove_element(e, sp, bufsize) ==
    LET c == IF sp THEN copy_out(Fresh(bufsize), Text(value[e]), bufsize)
             ELSE [buf |-> <<>>, written |-> 0]
    IN  /\ buf' = c.buf
        /\ written' = c.written
        /\ IF c.written > Len(c.buf)
           THEN pc' = "ub" /\ UNCHANGED <<heap, ret>>
           ELSE LET l == list_del(next, prev, e)
                IN  /\ next' = l.next
                    /\ prev' = l.prev
                    /\ status' = [status EXCEPT ![e] = "owned"]
                    /\ ret' = e
                    /\ UNCHANGED <<head, value, frees, allocated, pc>>

\* if (!head || list_empty(head)) return NULL;
remove_nothing(sp, bufsize) ==
    /\ ret' = NULL
    /\ buf' = IF sp THEN Fresh(bufsize) ELSE <<>>
    /\ written' = 0
    /\ UNCHANGED <<heap, pc>>

q_remove_head(sp, bufsize) ==
    /\ lastOp' = "q_remove_head"
    /\ arg' = [NoArg EXCEPT !.sp = sp, !.bufsize = bufsize]
    /\ IF head = NULL \/ list_empty(next, head)
       THEN remove_nothing(sp, bufsize)
       ELSE remove_element(next[head], sp, bufsize)

\* ---------------------------------------------------- q_remove_tail
q_remove_tail(sp, bufsize) ==
    /\ lastOp' = "q_remove_tail"
    /\ arg' = [NoArg EXCEPT !.sp = sp, !.bufsize = bufsize]
    /\ IF head = NULL \/ list_empty(next, head)
       THEN remove_nothing(sp, bufsize)
       ELSE remove_element(prev[head], sp, bufsize)

\* ----------------------------------------------------------- q_size
RECURSIVE list_for_each_count(_, _, _, _)
\* list_for_each (n, head) l++;
list_for_each_count(nx, n, h, l) ==
    IF n = h THEN l ELSE list_for_each_count(nx, nx[n], h, l + 1)

\* q_size with the counter started at 1
q_size_result_from_one ==
    IF head = NULL \/ list_empty(next, head) THEN 0
    ELSE list_for_each_count(next, next[head], head, 1)

q_size_result ==
    IF head = NULL \/ list_empty(next, head) THEN 0
    ELSE list_for_each_count(next, next[head], head, 0)

q_size ==
    /\ lastOp' = "q_size"
    /\ ret' = q_size_result
    /\ NoCall
    /\ UNCHANGED heap

\* ------------------------------------------------------ q_delete_mid
RECURSIVE delete_mid_walk(_, _, _, _)
\* for (f = head->next, b = head->prev;; f = f->next, b = b->prev)
\*     if (f == b || f == b->prev) break;
delete_mid_walk(nx, pv, f, b) ==
    IF f = b \/ f = pv[b] THEN f ELSE delete_mid_walk(nx, pv, nx[f], pv[b])

q_delete_mid ==
    /\ lastOp' = "q_delete_mid"
    /\ NoCall
    /\ IF head = NULL \/ list_empty(next, head)
       THEN ret' = FALSE /\ UNCHANGED heap
       ELSE LET f == delete_mid_walk(next, prev, next[head], prev[head])
            IN  /\ Store(list_del_release(Heap, f))
                /\ ret' = TRUE
                /\ UNCHANGED head

\* ------------------------------------------------------ q_delete_dup
\* the locals of q_delete_dup next to the memory
Locals(l, b, del_cur) ==
    [next |-> next, prev |-> prev, value |-> value, status |-> status,
     frees |-> frees, allocated |-> allocated,
     l |-> l, b |-> b, del_cur |-> del_cur]

RECURSIVE delete_dup_loop(_)
\* while (l->next != head) { ... } over d = Locals(l, b, del_cur)
delete_dup_loop(d) ==
    IF d.next[d.l] = head THEN d
    ELSE LET b == d.l
             c == d.next[d.l]
         IN  IF d.value[b] = d.value[c]
             THEN delete_dup_loop(
                      [list_del_release(d, c) EXCEPT !.b = b, !.del_cur = TRUE])
             ELSE IF d.del_cur
             THEN delete_dup_loop(
                      [list_del_release(d, b) EXCEPT
                           !.l = c, !.b = b, !.del_cur = FALSE])
             ELSE delete_dup_loop([d EXCEPT !.l = c, !.b = b])

\* q_delete_dup without the final "if (del_cur)" after the loop
delete_dup_body_no_tail ==
    delete_dup_loop(Locals(next[head], NULL, FALSE))

\* the whole body of q_delete_dup on a present list
delete_dup_body ==
    LET d == delete_dup_loop(Locals(next[head], NULL, FALSE))
    IN  IF d.del_cur THEN list_del_release(d, d.b) ELSE d

q_delete_dup ==
    /\ lastOp' = "q_delete_dup"
    /\ NoCall
    /\ IF head = NULL
       THEN ret' = FALSE /\ UNCHANGED heap
       ELSE /\ Store(delete_dup_body)
            /\ ret' = TRUE
            /\ UNCHANGED head

\* ----------------------------------------------------------- q_swap
RECURSIVE swap_loop_no_advance(_, _, _)
\* the loop of q_swap going on from n itself after each exchange
swap_loop_no_advance(nx, pv, n) ==
    IF n = head \/ nx[n] = head THEN [next |-> nx, prev |-> pv]
    ELSE LET fwn == nx[n]
             l1 == list_del(nx, pv, n)
             l2 == list_add(l1.next, l1.prev, n, fwn)
         IN  swap_loop_no_advance(l2.next, l2.prev, n)

RECURSIVE swap_loop(_, _, _)
\* list_for_each (n, head) { if (n->next == head) break; ... }
swap_loop(nx, pv, n) ==
    IF n = head \/ nx[n] = head THEN [next |-> nx, prev |-> pv]
    ELSE LET fwn == nx[n]
             l1 == list_del(nx, pv, n)
             l2 == list_add(l1.next, l1.prev, n, fwn)
         IN  swap_loop(l2.next, l2.prev, l2.next[n])

q_swap ==
    /\ lastOp' = "q_swap"
    /\ ret' = "void"
    /\ NoCall
    /\ IF head = NULL \/ list_empty(next, head)
       THEN UNCHANGED heap
       ELSE LET l == swap_loop(next, prev, next[head])
            IN  /\ next' = l.next
                /\ prev' = l.prev
                /\ UNCHANGED <<head, value, status, frees, allocated>>

\* -------------------------------------------------------- q_reverse
RECURSIVE reverse_loop_elements_only(_, _, _)
\* the loop of q_reverse leaving the two fields of the sentinel alone
reverse_loop_elements_only(nx, pv, n) ==
    LET t == nx[n]
        nx1 == IF n = head THEN nx ELSE [nx EXCEPT ![n] = pv[n]]
        pv1 == IF n = head THEN pv ELSE [pv EXCEPT ![n] = t]
    IN  IF t = head THEN [next |-> nx1, prev |-> pv1]
        ELSE reverse_loop_elements_only(nx1, pv1, t)

RECURSIVE reverse_loop(_, _, _)
\* do { t = n->next; n->next = n->prev; n->prev = t; n = t; } while (n != head);
reverse_loop(nx, pv, n) ==
    LET t == nx[n]
        nx1 == [nx EXCEPT ![n] = pv[n]]
        pv1 == [pv EXCEPT ![n] = t]
    IN  IF t = head THEN [next |-> nx1, prev |-> pv1]
        ELSE reverse_loop(nx1, pv1, t)

q_reverse ==
    /\ lastOp' = "q_reverse"
    /\ ret' = "void"
    /\ NoCall
    /\ IF head = NULL \/ list_empty(next, head)
       THEN UNCHANGED heap
       ELSE LET l == reverse_loop(next, prev, head)
            IN  /\ next' = l.next
                /\ prev' = l.prev
                /\ UNCHANGED <<head, value, status, frees, allocated>>

\* ---------------------------------------------------- mergeTwoLists
RECURSIVE merge_loop(_, _, _, _, _)
\* for (; L1 && L2; ptr = &(*ptr)->next) ...; *ptr = L1 | L2;
\* ptr is &hd while last = NULL and &last->next afterwards.
merge_loop(nx, hd, last, L1, L2) ==
    IF L1 # NULL /\ L2 # NULL
    THEN LET pick == IF value[L1] <= value[L2] THEN L1 ELSE L2
             hd1 == IF last = NULL THEN pick ELSE hd
             nx1 == IF last = NULL THEN nx ELSE [nx EXCEPT ![last] = pick]
         IN  IF pick = L1
             THEN merge_loop(nx1, hd1, pick, nx[L1], L2)
             ELSE merge_loop(nx1, hd1, pick, L1, nx[L2])
    ELSE LET rest == IF L1 # NULL THEN L1 ELSE L2
         IN  IF last = NULL THEN [head |-> rest, next |-> nx]
             ELSE [head |-> hd, next |-> [nx EXCEPT ![last] = rest]]

mergeTwoLists(nx, L1, L2) == merge_loop(nx, NULL, NULL, L1, L2)

\* --------------------------------------------------- list_mergesort
\* The function as a machine over
\* m = [next, prev, pc, stack, top, lists, listsSize]; one step is the
\* entry, one iteration of the work-stack loop, one merge pass, or the
\* final relinking.
RECURSIVE skip_equal(_, _)
\* while (slow->next && strcmp(slow, slow->next) == 0) slow = slow->next;
skip_equal(nx, slow) ==
    IF nx[slow] # NULL /\ value[slow] = value[nx[slow]]
    THEN skip_equal(nx, nx[slow])
    ELSE slow

RECURSIVE split_walk(_, _, _)
\* for (fast = left->next; fast && fast->next; fast = fast->next->next)
split_walk(nx, slow, fast) ==
    IF fast = NULL \/ nx[fast] = NULL THEN slow
    ELSE IF value[slow] = value[nx[slow]] THEN skip_equal(nx, slow)
    ELSE split_walk(nx, nx[slow], nx[nx[fast]])

ms_begin(m) ==
    IF list_empty(m.next, head) \/ list_is_singular(m.next, m.prev, head)
    THEN [m EXCEPT !.pc = "done"]
    ELSE LET nx1 == [m.next EXCEPT ![m.prev[head]] = NULL]
         IN  [m EXCEPT !.next = nx1, !.stack = <<nx1[head]>>, !.top = 0,
                       !.lists = <<>>, !.listsSize = 0, !.pc = "split"]

ms_split(m) ==
    IF m.top < 0 THEN [m EXCEPT !.pc = "merge"]
    ELSE LET left == m.stack[m.top + 1]
             top1 == m.top - 1
             stack1 == SubSeq(m.stack, 1, top1 + 1)
         IN  IF left # NULL
             THEN LET slow == split_walk(m.next, left, m.next[left])
                      right == m.next[slow]
                      nx1 == [m.next EXCEPT ![slow] = NULL]
                  IN  IF top1 + 2 >= StackCap
                      THEN [m EXCEPT !.next = nx1, !.top = top1 + 2,
                                     !.stack = Append(stack1, left), !.pc = "ub"]
                      ELSE [m EXCEPT !.next = nx1, !.top = top1 + 2,
                                     !.stack = stack1 \o <<left, right>>]
             ELSE IF top1 < 0 \/ m.listsSize >= ListsCap
             THEN [m EXCEPT !.top = top1, !.stack = stack1,
                            !.listsSize = @ + 1, !.pc = "ub"]
             ELSE [m EXCEPT !.lists = Append(@, stack1[top1 + 1]),
                            !.listsSize = @ + 1,
                            !.stack = SubSeq(stack1, 1, top1),
                            !.top = top1 - 1]

RECURSIVE merge_pass(_, _, _, _)
\* for (int i = 0, j = listsSize - 1; i < j; i++, j--)
\*     lists[i] = mergeTwoLists(lists[i], lists[j]);
merge_pass(nx, ls, i, j) ==
    IF i < j
    THEN LET r == mergeTwoLists(nx, ls[i + 1], ls[j + 1])
         IN  merge_pass(r.next, [ls EXCEPT ![i + 1] = r.head], i + 1, j - 1)
    ELSE [next |-> nx, lists |-> ls]

\* ms_merge keeping listsSize / 2 runs after a pass
ms_merge_floor(m) ==
    IF m.listsSize > 1
    THEN LET r == merge_pass(m.next, m.lists, 0, m.listsSize - 1)
             size == m.listsSize \div 2
         IN  [m EXCEPT !.next = r.next, !.lists = SubSeq(r.lists, 1, size),
                       !.listsSize = size]
    ELSE [m EXCEPT !.pc = "relink"]

ms_merge(m) ==
    IF m.listsSize > 1
    THEN LET r == merge_pass(m.next, m.lists, 0, m.listsSize - 1)
             size == (m.listsSize + 1) \div 2
         IN  [m EXCEPT !.next = r.next, !.lists = SubSeq(r.lists, 1, size),
                       !.listsSize = size]
    ELSE [m EXCEPT !.pc = "relink"]

RECURSIVE relink_walk_no_prev(_, _, _)
\* the relinking pass without "i->next->prev = i"
relink_walk_no_prev(nx, pv, i) ==
    IF nx[i] # NULL
    THEN relink_walk_no_prev(nx, pv, nx[i])
    ELSE [next |-> [nx EXCEPT ![i] = head], prev |-> [pv EXCEPT ![head] = i]]

RECURSIVE relink_walk(_, _, _)
\* while (i->next) { i->next->prev = i; i = i->next; }
\* head->prev = i; i->next = head;
relink_walk(nx, pv, i) ==
    IF nx[i] # NULL
    THEN relink_walk(nx, [pv EXCEPT ![nx[i]] = i], nx[i])
    ELSE [next |-> [nx EXCEPT ![i] = head], prev |-> [pv EXCEPT ![head] = i]]

ms_relink(m) ==
    LET nx1 == [m.next EXCEPT ![head] = m.lists[1]]
        l == relink_walk(nx1, m.prev, head)
    IN  [m EXCEPT !.next = l.next, !.prev = l.prev, !.pc = "done",
                  !.stack = <<>>, !.top = -1, !.lists = <<>>, !.listsSize = 0]

ms_step(m) ==
    CASE m.pc = "idle" -> ms_begin(m)
      [] m.pc = "split" -> ms_split(m)
      [] m.pc = "merge" -> ms_merge(m)
      [] m.pc = "relink" -> ms_relink(m)
      [] OTHER -> m

RECURSIVE list_mergesort(_)
\* the function run to its return (or to an access outside its arrays)
list_mergesort(m) ==
    IF m.pc \in {"done", "ub"} THEN m ELSE list_mergesort(ms_step(m))

Entry == [next |-> next, prev |-> prev, pc |-> "idle", stack |-> <<>>,
          top |-> -1, lists |-> <<>>, listsSize |-> 0]

\* ------------------------------------------------------- list_qsort
\* The three list heads of one call of list_qsort are its locals: they
\* are the nodes after the last one of the memory the call starts with
\* (WithLocals), and are gone when it returns (WithoutLocals).
WithLocals(f) ==
    [n \in 1..(Cardinality(DOMAIN f) + 3) |->
         IF n <= Cardinality(DOMAIN f) THEN f[n] ELSE NULL]

WithoutLocals(f, base) == [n \in 1..base |-> f[n]]

RECURSIVE partition_loop(_, _)
\* list_for_each_entry_safe (item, is, head, list) { ... } over
\* q = [next, prev, head, pivot, less, equal, greater]
partition_loop(q, item) ==
    IF item = q.head THEN q
    ELSE LET is == q.next[item]
             l == IF value[item] = value[q.pivot]
                  THEN list_move_tail(q.next, q.prev, item, q.equal)
                  ELSE IF value[item] < value[q.pivot]
                  THEN list_move_tail(q.next, q.prev, item, q.less)
                  ELSE list_move(q.next, q.prev, item, q.greater)
         IN  partition_loop([q EXCEPT !.next = l.next, !.prev = l.prev], is)

\* the end of list_qsort with list_less spliced at the tail
reassemble_less_at_tail(nx, pv, pivot, h, less, equal, greater) ==
    LET a == list_add(nx, pv, pivot, h)
        b == list_splice(a.next, a.prev, equal, h)
        c == list_splice_tail(b.next, b.prev, less, h)
    IN  list_splice_tail(c.next, c.prev, greater, h)

\* list_add(&pivot->list, head); list_splice(&list_equal, head);
\* list_splice(&list_less, head); list_splice_tail(&list_greater, head);
reassemble(nx, pv, pivot, h, less, equal, greater) ==
    LET a == list_add(nx, pv, pivot, h)
        b == list_splice(a.next, a.prev, equal, h)
        c == list_splice(b.next, b.prev, less, h)
    IN  list_splice_tail(c.next, c.prev, greater, h)

RECURSIVE list_qsort(_, _, _)
list_qsort(nx, pv, h) ==
    IF list_empty(nx, h) \/ list_is_singular(nx, pv, h)
    THEN [next |-> nx, prev |-> pv]
    ELSE LET base == Cardinality(DOMAIN nx)
             less == base + 1
             greater == base + 2
             equal == base + 3
             i1 == INIT_LIST_HEAD(WithLocals(nx), WithLocals(pv), less)
             i2 == INIT_LIST_HEAD(i1.next, i1.prev, equal)
             i3 == INIT_LIST_HEAD(i2.next, i2.prev, greater)
             pivot == nx[h]
             d == list_del_init(i3.next, i3.prev, pivot)
             p == partition_loop([next |-> d.next, prev |-> d.prev,
                                  head |-> h, pivot |-> pivot, less |-> less,
                                  equal |-> equal, greater |-> greater],
                                 d.next[h])
             s1 == list_qsort(p.next, p.prev, less)
             s2 == list_qsort(s1.next, s1.prev, greater)
             r == reassemble(s2.next, s2.prev, pivot, h, less, equal, greater)
         IN  [next |-> WithoutLocals(r.next, base),
              prev |-> WithoutLocals(r.prev, base)]

\* list_qsort called on the list of the caller
qsort_call ==
    /\ head # NULL
    /\ lastOp' = "list_qsort"
    /\ ret' = "void"
    /\ NoCall
    /\ LET r == list_qsort(next, prev, head)
       IN  next' = r.next /\ prev' = r.prev
    /\ UNCHANGED <<head, value, status, frees, allocated>>

\* ----------------------------------------------------------- q_sort
q_sort ==
    /\ lastOp' = "q_sort"
    /\ ret' = "void"
    /\ NoCall
    /\ IF head = NULL \/ list_empty(next, head)
       THEN UNCHANGED <<heap, pc>>
       ELSE LET r == list_mergesort(Entry)
            IN  /\ next' = r.next
                /\ prev' = r.prev
                /\ pc' = IF r.pc = "ub" THEN "ub" ELSE pc
                /\ UNCHANGED <<head, value, status, frees, allocated>>

Init ==
    /\ \E ok \in BOOLEAN : q_new(ok, MaxNodes)
    /\ lastOp = "q_new"
    /\ ret = head
    /\ pc = "idle"
    /\ stack = <<>>
    /\ top = -1
    /\ lists = <<>>
    /\ listsSize = 0
    /\ sorts = 0
    /\ first = <<>>
    /\ mode = <<"none", "none">>
    /\ ins = <<>>
    /\ out = <<>>
    /\ trace = <<>>
    /\ arg = NoArg
    /\ buf = <<>>
    /\ written = 0

idle == <<stack, top, lists, listsSize, sorts, first, mode, ins, out, trace>>

\* Once the sort has written outside its arrays nothing is known of the
\* program; the operations are modelled up to that point.
Running == pc # "ub"

InsertHead ==
    /\ Running
    /\ \E s \in Values, m \in Malloc : q_insert_head(s, m)
    /\ UNCHANGED <<pc, idle>>

InsertTail ==
    /\ Running
    /\ \E s \in Values, m \in Malloc : q_insert_tail(s, m)
    /\ UNCHANGED <<pc, idle>>

\* In Spec the caller asks for no copy of the string (sp is NULL).
RemoveHead == Running /\ q_remove_head(FALSE, 0) /\ UNCHANGED idle

RemoveTail == Running /\ q_remove_tail(FALSE, 0) /\ UNCHANGED idle

\* the caller releases an element that q_remove_head / q_remove_tail gave it
Release ==
    /\ Running
    /\ \E e \in Owned : Store(q_release_element(Heap, e))
    /\ lastOp' = "q_release_element"
    /\ ret' = "void"
    /\ NoCall
    /\ UNCHANGED <<head, pc, idle>>

FreeList == Running /\ q_free /\ UNCHANGED <<pc, idle>>

Size == Running /\ q_size /\ UNCHANGED <<pc, idle>>

DeleteMid == Running /\ q_delete_mid /\ UNCHANGED <<pc, idle>>

DeleteDup == Running /\ q_delete_dup /\ UNCHANGED <<pc, idle>>

Swap == Running /\ q_swap /\ UNCHANGED <<pc, idle>>

ReverseList == Running /\ q_reverse /\ UNCHANGED <<pc, idle>>

Sort == Running /\ q_sort /\ UNCHANGED idle

Next ==
    \/ InsertHead
    \/ InsertTail
    \/ RemoveHead
    \/ RemoveTail
    \/ Release
    \/ FreeList
    \/ Size
    \/ DeleteMid
    \/ DeleteDup
    \/ Swap
    \/ ReverseList
    \/ Sort

Spec == Init /\ [][Next]_vars

\* ------------------------------------------------- sorting, stepwise
\* The list q_new and q_insert_tail build from the strings vs[1..n]:
\* elements 1..n, in this order.
Built(vs) ==
    LET n == Len(vs)
    IN  /\ head = n + 1
        /\ next = [i \in 1..(n + 1) |-> IF i = n + 1 THEN 1 ELSE i + 1]
        /\ prev = [i \in 1..(n + 1) |-> IF i = 1 THEN n + 1 ELSE i - 1]
        /\ value = [e \in 1..n |-> vs[e]]
        /\ status = [e \in 1..n |-> "linked"]
        /\ frees = [i \in 1..(n + 1) |-> 0]
        /\ allocated = 1 + 2 * n

Quiet ==
    /\ pc = "idle"
    /\ stack = <<>>
    /\ top = -1
    /\ lists = <<>>
    /\ listsSize = 0
    /\ sorts = 0
    /\ first = <<>>
    /\ mode = <<"none", "none">>
    /\ ins = <<>>
    /\ out = <<>>
    /\ trace = <<>>
    /\ arg = NoArg
    /\ buf = <<>>
    /\ written = 0

InitSort ==
    /\ \/ q_new(FALSE, 0) /\ lastOp = "q_new" /\ ret = NULL
       \/ \E n \in 0..MaxLen : \E vs \in [1..n -> Values] :
              Built(vs) /\ lastOp = "q_insert_tail" /\ ret = TRUE
    /\ Quiet

Machine == [next |-> next, prev |-> prev, pc |-> pc, stack |-> stack,
            top |-> top, lists |-> lists, listsSize |-> listsSize]

Load(m) ==
    /\ next' = m.next
    /\ prev' = m.prev
    /\ pc' = m.pc
    /\ stack' = m.stack
    /\ top' = m.top
    /\ lists' = m.lists
    /\ listsSize' = m.listsSize

\* the elements of the list with the links nx, each with its string
Snapshot(nx) ==
    IF head = NULL THEN <<>>
    ELSE LET w == Walk(nx, nx[head], head, NodeCount)
         IN  [i \in 1..Len(w) |-> <<w[i], value[w[i]]>>]

\* bookkeeping when the step to m is (or is not) the return of q_sort
Returned(m) ==
    /\ sorts' = IF m.pc = "done" THEN sorts + 1 ELSE sorts
    /\ first' = IF m.pc = "done" /\ sorts = 0 THEN Snapshot(m.next) ELSE first

\* q_sort is called (for the first or the second time) and runs up to
\* the work-stack loop of list_mergesort
SortCall ==
    /\ pc \in {"idle", "done"}
    /\ sorts < 2
    /\ lastOp # "q_delete_dup"
    /\ lastOp' = "q_sort"
    /\ ret' = "void"
    /\ LET m == IF head = NULL \/ list_empty(next, head)
                THEN [Machine EXCEPT !.pc = "done"]
                ELSE ms_begin([Machine EXCEPT !.pc = "idle"])
       IN  Load(m) /\ Returned(m)
    /\ NoCall
    /\ UNCHANGED <<head, value, status, frees, allocated, fifo, trace>>

SortSplit ==
    /\ pc = "split"
    /\ Load(ms_split(Machine))
    /\ UNCHANGED <<head, value, status, frees, allocated, call, lastOp, ret,
                   sortGhost, fifo, trace>>

SortMerge ==
    /\ pc = "merge"
    /\ Load(ms_merge(Machine))
    /\ UNCHANGED <<head, value, status, frees, allocated, call, lastOp, ret,
                   sortGhost, fifo, trace>>

SortRelink ==
    /\ pc = "relink"
    /\ LET m == ms_relink(Machine)
       IN  Load(m) /\ Returned(m)
    /\ UNCHANGED <<head, value, status, frees, allocated, call, lastOp, ret,
                   fifo, trace>>

\* q_delete_dup right after the first q_sort
SortedDedup ==
    /\ pc = "done"
    /\ sorts = 1
    /\ lastOp = "q_sort"
    /\ q_delete_dup
    /\ UNCHANGED <<machine, sortGhost, fifo, trace>>

NextSort == SortCall \/ SortSplit \/ SortMerge \/ SortRelink \/ SortedDedup

SpecSort == InitSort /\ [][NextSort]_vars

\* ------------------------------------- sorting, long lists of pairs
\* the strings s1 s1 s2 s2 ... sp sp
PairList(p) == [i \in 1..(2 * p) |-> (i + 1) \div 2]

InitCap ==
    /\ \E p \in (1..MaxPairs) \cup {StackCap - 1} : Built(PairList(p))
    /\ lastOp = "q_insert_tail"
    /\ ret = TRUE
    /\ Quiet

SpecCap == InitCap /\ [][NextSort]_vars

\* A call runs on: a step of the sort that can be taken is taken.
SpecCapLive == InitCap /\ [][NextSort]_vars /\ WF_vars(NextSort)

\* ------------------------------------------- insert, then remove
Ends == {"head", "tail"}

InitFifo ==
    /\ \E ok \in BOOLEAN : q_new(ok, MaxFifo)
    /\ lastOp = "q_new"
    /\ ret = head
    /\ pc = "idle"
    /\ stack = <<>>
    /\ top = -1
    /\ lists = <<>>
    /\ listsSize = 0
    /\ sorts = 0
    /\ first = <<>>
    /\ mode \in Ends \X Ends
    /\ ins = <<>>
    /\ out = <<>>
    /\ trace = <<>>
    /\ arg = NoArg
    /\ buf = <<>>
    /\ written = 0

FifoInsert(s, m) ==
    /\ out = <<>>
    /\ Len(ins) < MaxFifo
    /\ \/ mode[1] = "head" /\ q_insert_head(s, m)
       \/ mode[1] = "tail" /\ q_insert_tail(s, m)
    /\ ins' = IF ret' THEN Append(ins, s) ELSE ins
    /\ UNCHANGED <<machine, sortGhost, mode, out, trace>>

FifoRemove ==
    /\ \/ mode[2] = "head" /\ q_remove_head(FALSE, 0)
       \/ mode[2] = "tail" /\ q_remove_tail(FALSE, 0)
    /\ out' = IF ret' # NULL THEN Append(out, value[ret']) ELSE out
    /\ UNCHANGED <<stack, top, lists, listsSize, sortGhost, mode, ins, trace>>

NextFifo == (\E s \in Values, m \in Malloc : FifoInsert(s, m)) \/ FifoRemove

SpecFifo == InitFifo /\ [][NextFifo]_vars

\* ------------------------------------------- reordering operations
\* q_sort, q_swap, q_reverse and list_qsort, up to MaxOps of them in any
\* order, on every list of up to MaxXLen elements; first is the list at
\* the start.
InitXform ==
    /\ \/ q_new(FALSE, 0) /\ lastOp = "q_new" /\ ret = NULL
       \/ \E n \in 0..MaxXLen : \E vs \in [1..n -> Values] :
              Built(vs) /\ lastOp = "q_insert_tail" /\ ret = TRUE
    /\ pc = "idle"
    /\ stack = <<>>
    /\ top = -1
    /\ lists = <<>>
    /\ listsSize = 0
    /\ sorts = 0
    /\ first = Snapshot(next)
    /\ mode = <<"none", "none">>
    /\ ins = <<>>
    /\ out = <<>>
    /\ trace = <<>>
    /\ arg = NoArg
    /\ buf = <<>>
    /\ written = 0

Applied(op) ==
    /\ Running
    /\ Len(trace) < MaxOps
    /\ trace' = Append(trace, op)
    /\ UNCHANGED <<stack, top, lists, listsSize, sorts, first, mode, ins, out>>

XSort == Applied("q_sort") /\ q_sort

XSwap == Applied("q_swap") /\ q_swap /\ UNCHANGED pc

XReverse == Applied("q_reverse") /\ q_reverse /\ UNCHANGED pc

XQsort == Applied("list_qsort") /\ qsort_call /\ UNCHANGED pc

NextXform == XSort \/ XSwap \/ XReverse \/ XQsort

SpecXform == InitXform /\ [][NextXform]_vars

\* ---------------------------------- removing into an output buffer
\* q_remove_head and q_remove_tail on every list of up to MaxFifo
\* elements, with no buffer or with a buffer of 0..MaxCap bytes.
InitBuf ==
    /\ \/ q_new(FALSE, 0) /\ lastOp = "q_new" /\ ret = NULL
       \/ \E n \in 0..MaxFifo : \E vs \in [1..n -> Values] :
              Built(vs) /\ lastOp = "q_insert_tail" /\ ret = TRUE
    /\ Quiet

BufRemoveHead ==
    /\ Running
    /\ \E sp \in BOOLEAN, bufsize \in 0..MaxCap : q_remove_head(sp, bufsize)
    /\ UNCHANGED idle

BufRemoveTail ==
    /\ Running
    /\ \E sp \in BOOLEAN, bufsize \in 0..MaxCap : q_remove_tail(sp, bufsize)
    /\ UNCHANGED idle

NextBuf == BufRemoveHead \/ BufRemoveTail

SpecBuf == InitBuf /\ [][NextBuf]_vars

\* ------------------------------------------------------------ claims
IsSorted(s) == \A i \in 1..(Len(s) - 1) : s[i] <= s[i + 1]

IsStrictlyAscending(s) == \A i \in 1..(Len(s) - 1) : s[i] < s[i + 1]

RemoveAt(s, k) == SubSeq(s, 1, k - 1) \o SubSeq(s, k + 1, Len(s))

Occurrences(s, v) == Cardinality({i \in 1..Len(s) : s[i] = v})

FirstValues == [i \in 1..Len(first) |-> first[i][2]]

\* C1: when q_sort has returned, the values read from head to tail are
\* non-decreasing.
C1_SortedAfterSort ==
    (pc = "done" /\ lastOp = "q_sort") => IsSorted(FwdValues)

\* C2: q_delete_mid on a list of n >= 1 elements returns true and deletes
\* exactly the element at index floor(n/2) (counting from 0), the others
\* keeping their order; on an absent or empty list it returns false and
\* changes nothing.
C2_DeleteMiddleIndex ==
    [][lastOp' = "q_delete_mid" =>
         IF head = NULL \/ Fwd = <<>>
         THEN ret' = FALSE /\ UNCHANGED heap
         ELSE LET k == (Len(Fwd) \div 2) + 1
              IN  /\ ret' = TRUE
                  /\ Fwd' = RemoveAt(Fwd, k)
                  /\ status' = [status EXCEPT ![Fwd[k]] = "deleted"]]_vars

\* C3: q_sort is stable: two elements with equal values are, after the
\* sort, in the order they had before it (the input holds the elements
\* 1..n in this order).
C3_SortStable ==
    (pc = "done" /\ lastOp = "q_sort" /\ sorts = 1) =>
        \A i, j \in 1..Len(Fwd) :
            (i < j /\ value[Fwd[i]] = value[Fwd[j]]) => Fwd[i] < Fwd[j]

\* C4: whenever an operation has returned, the list is a well-formed
\* circular doubly linked list: n.next.prev = n and n.prev.next = n for the
\* sentinel and every node reached from it, following next leads back to
\* the sentinel, the backward traversal is the forward one reversed, and
\* the nodes on the list are exactly the elements the list owns.
C4_WellFormed ==
    head # NULL =>
        LET nodes == {head} \cup Range(Fwd)
            last == IF Fwd = <<>> THEN head ELSE Fwd[Len(Fwd)]
        IN  /\ \A n \in nodes :
                   /\ next[n] \in nodes
                   /\ prev[n] \in nodes
                   /\ prev[next[n]] = n
                   /\ next[prev[n]] = n
            /\ next[last] = head
            /\ Bwd = Reverse(Fwd)
            /\ Range(Fwd) = Linked
            /\ Len(Fwd) = Cardinality(Linked)

C4_Witness ==
    /\ lastOp = "q_sort"
    /\ Len(Fwd) = 3
    /\ FwdValues[1] < FwdValues[3]
    /\ Fwd[1] > Fwd[2]

\* C5: q_delete_dup on a list sorted ascending returns true and leaves
\* exactly the elements whose value occurs once, in their order; every
\* element of a run of two or more equal values is unlinked and released.
\* On an empty list it returns true and changes nothing, on an absent list
\* it returns false.  (first is the list q_delete_dup was called on.)
C5_DeleteDupOnSorted ==
    lastOp = "q_delete_dup" =>
        IF head = NULL THEN ret = FALSE /\ Linked = {}
        ELSE IsSorted(FirstValues) =>
                 LET Once(x) == Occurrences(FirstValues, x[2]) = 1
                     kept == SelectSeq(first, Once)
                 IN  /\ ret = TRUE
                     /\ Fwd = [i \in 1..Len(kept) |-> kept[i][1]]
                     /\ FwdValues = [i \in 1..Len(kept) |-> kept[i][2]]
                     /\ \A i \in 1..Len(first) :
                            status[first[i][1]] =
                                IF Once(first[i]) THEN "linked" ELSE "deleted"

C5_Witness ==
    /\ lastOp = "q_delete_dup"
    /\ head # NULL
    /\ IsSorted(FirstValues)
    /\ Len(first) >= 4
    /\ Len(Fwd) = 1
    /\ Cardinality(Deleted) = Len(first) - 1
    /\ ret = TRUE

\* C6: after q_sort and then q_delete_dup, the values read from head to
\* tail are strictly ascending, so every surviving value occurs once.
C6_SortThenDeleteDup ==
    lastOp = "q_delete_dup" =>
        /\ IsStrictlyAscending(FwdValues)
        /\ \A i \in 1..Len(Fwd) : Occurrences(FwdValues, FwdValues[i]) = 1

\* C7: the values removed come out in the order the two ends dictate:
\* q_insert_tail then q_remove_head, in insertion order (FIFO);
\* q_insert_head then q_remove_head, in reverse order (LIFO); and
\* q_remove_tail takes the last element of the traversal, so the orders
\* are the opposite ones.
\* the list after the inserts, before any removal
Inserted == IF mode[1] = "tail" THEN ins ELSE Reverse(ins)

C7_QueueOrder ==
    LET n == Len(ins)
        k == Len(out)
    IN  /\ k <= n
        /\ mode[2] = "head" =>
               /\ out = SubSeq(Inserted, 1, k)
               /\ FwdValues = SubSeq(Inserted, k + 1, n)
        /\ mode[2] = "tail" =>
               /\ out = Reverse(SubSeq(Inserted, n - k + 1, n))
               /\ FwdValues = SubSeq(Inserted, 1, n - k)
        /\ mode = <<"tail", "head">> => out = SubSeq(ins, 1, k)
        /\ mode = <<"head", "head">> => out = SubSeq(Reverse(ins), 1, k)

C7_Witness ==
    /\ mode = <<"tail", "head">>
    /\ Len(ins) = MaxFifo
    /\ out = ins
    /\ ins[1] # ins[Len(ins)]

\* C8: q_size returns the number of elements linked in the list, which is
\* the successful inserts minus the removed and the deleted elements; 0 for
\* an absent or empty list; and it modifies nothing.
C8_SizeCounts ==
    [][lastOp' = "q_size" =>
         /\ UNCHANGED heap
         /\ ret' = Cardinality(Linked)
         /\ ret' = (Cardinality(DOMAIN status) - Cardinality(Free))
                       - Cardinality(Owned) - Cardinality(Deleted)
         /\ (head = NULL \/ Fwd = <<>>) => ret' = 0]_vars

C8_Witness ==
    /\ lastOp = "q_size"
    /\ ret = 1
    /\ Owned # {}
    /\ Deleted # {}

\* C9: the sort never holds more entries on its work stack than the stack
\* has slots, nor more runs than the run array has slots, whatever the
\* length of the list.
C9_WithinCapacity ==
    /\ top + 1 <= StackCap
    /\ listsSize <= ListsCap

\* C10: the values after a second q_sort are the values after the first.
C10_SortIdempotent ==
    (pc = "done" /\ lastOp = "q_sort" /\ sorts = 2) => FwdValues = FirstValues

\* the storage accounts of the state: an element is linked exactly when it
\* is on the list, it was freed once if it is released and never otherwise,
\* the sentinel was freed once if the list was created and destroyed, and
\* the blocks allocated are the sentinel and two for each element that is
\* linked or owned by the caller
Accounted ==
    LET on == Range(Fwd)
    IN  /\ \A e \in DOMAIN status :
               /\ status[e] \in {"free", "linked", "owned", "deleted"}
               /\ status[e] = "linked" <=> e \in on
               /\ frees[e] = IF status[e] = "deleted" THEN 1 ELSE 0
        /\ frees[NodeCount] =
               IF head = NULL /\ next[NodeCount] # NULL THEN 1 ELSE 0
        /\ allocated = 2 * Cardinality(Linked \cup Owned)
                           + (IF head # NULL THEN 1 ELSE 0)

\* C11: every element is linked, owned by the caller or released, none is
\* released twice or while linked; q_delete_mid and q_delete_dup release
\* each element they unlink exactly once; q_free releases each linked
\* element exactly once and then the sentinel, releases no element of an
\* empty list, and does nothing on an absent list.
C11_Ownership ==
    /\ []Accounted
    /\ [][/\ lastOp' \in {"q_delete_mid", "q_delete_dup"} =>
                 LET unlinked == Range(Fwd) \ Range(Fwd')
                 IN  /\ \A e \in DOMAIN status :
                            frees'[e] = frees[e] +
                                (IF e \in unlinked THEN 1 ELSE 0)
                     /\ frees'[NodeCount] = frees[NodeCount]
                     /\ \A e \in unlinked : status'[e] = "deleted"
          /\ lastOp' = "q_free" =>
                 IF head = NULL THEN UNCHANGED heap
                 ELSE LET on == Range(Fwd)
                      IN  /\ \A e \in DOMAIN status :
                                 /\ frees'[e] = frees[e] +
                                        (IF e \in on THEN 1 ELSE 0)
                                 /\ e \notin on => status'[e] = status[e]
                          /\ frees'[head] = frees[head] + 1
                          /\ allocated' = 2 * Cardinality(Owned)]_vars

C11_Witness ==
    /\ lastOp = "q_free"
    /\ head = NULL
    /\ frees[NodeCount] = 1
    /\ Cardinality(Deleted) >= 2
    /\ Owned # {}
    /\ allocated = 2 * Cardinality(Owned)

\* C12: q_insert_head and q_insert_tail fail atomically: on an absent list,
\* or when malloc or strdup returns NULL, they return false, the list and
\* every link are unchanged and every block allocated in the call is freed;
\* otherwise they return true and the list has exactly one more element, a
\* new one holding the string, at the end asked for.
C12_InsertAtomic ==
    [][lastOp' \in {"q_insert_head", "q_insert_tail"} =>
         IF head = NULL \/ arg'.m # "ok"
         THEN ret' = FALSE /\ UNCHANGED heap
         ELSE /\ ret' = TRUE
              /\ \E e \in Free :
                     /\ Fwd' = IF lastOp' = "q_insert_head"
                               THEN <<e>> \o Fwd ELSE Append(Fwd, e)
                     /\ value' = [value EXCEPT ![e] = arg'.s]
                     /\ status' = [status EXCEPT ![e] = "linked"]
              /\ allocated' = allocated + 2
              /\ UNCHANGED <<head, frees>>]_vars

C12_Witness ==
    /\ lastOp = "q_insert_tail"
    /\ ret = FALSE
    /\ arg.m = "no_string"
    /\ Len(Fwd) = 2
    /\ allocated = 5

\* C13: q_remove_head / q_remove_tail on an absent or empty list return
\* NULL and change nothing; otherwise they unlink exactly the first / last
\* element, the others keeping their order, and return it without releasing
\* it: the element and its string stay allocated and unchanged for as long
\* as the caller owns it.
C13_RemoveFrame ==
    [][/\ lastOp' \in {"q_remove_head", "q_remove_tail"} =>
              IF head = NULL \/ Fwd = <<>>
              THEN ret' = NULL /\ UNCHANGED heap
              ELSE LET n == Len(Fwd)
                       atHead == lastOp' = "q_remove_head"
                       e == IF atHead THEN Fwd[1] ELSE Fwd[n]
                   IN  /\ ret' = e
                       /\ Fwd' = IF atHead THEN SubSeq(Fwd, 2, n)
                                 ELSE SubSeq(Fwd, 1, n - 1)
                       /\ status' = [status EXCEPT ![e] = "owned"]
                       /\ UNCHANGED <<head, value, frees, allocated>>
       /\ \A e \in Owned :
              \/ /\ status'[e] = "owned"
                 /\ value'[e] = value[e]
                 /\ value[e] # 0
                 /\ frees'[e] = 0
              \/ lastOp' = "q_release_element" /\ status'[e] = "deleted"]_vars

C13_Witness ==
    /\ lastOp = "q_remove_tail"
    /\ ret # NULL
    /\ Len(Fwd) = 2
    /\ status[ret] = "owned"
    /\ value[ret] # 0
    /\ frees[ret] = 0

FirstNodes == [i \in 1..Len(first) |-> first[i][1]]

\* s with the elements at the positions 2k and 2k+1 (from 0) exchanged
SwapPairs(s) ==
    [i \in 1..Len(s) |->
         IF i % 2 = 0 THEN s[i - 1]
         ELSE IF i < Len(s) THEN s[i + 1] ELSE s[i]]

\* C14: q_reverse leaves the elements in exactly the reverse of their
\* order before the call, on every list, the empty and the single-element
\* one included; so two calls in a row restore the order the list had.
C14_Reverse ==
    [][lastOp' = "q_reverse" =>
         /\ Fwd' = Reverse(Fwd)
         /\ Bwd' = Fwd
         /\ trace' = <<"q_reverse", "q_reverse">> => Fwd' = FirstNodes]_vars

C14_Witness ==
    /\ trace = <<"q_reverse", "q_reverse">>
    /\ Len(Fwd) = MaxXLen
    /\ Fwd = FirstNodes
    /\ Bwd = Reverse(FirstNodes)

\* C15: q_swap exchanges the elements at the positions 2k and 2k+1 for
\* every pair in the list and leaves a last odd element in place; the list
\* 1,2,3,4,5 becomes 2,1,4,3,5; an absent or empty list is left unchanged.
C15_SwapPairs ==
    [][lastOp' = "q_swap" =>
         /\ Fwd' = SwapPairs(Fwd)
         /\ Bwd' = Reverse(Fwd')
         /\ (head = NULL \/ Fwd = <<>>) => UNCHANGED heap
         /\ Fwd = <<1, 2, 3, 4, 5>> => Fwd' = <<2, 1, 4, 3, 5>>]_vars

C15_Witness ==
    /\ trace = <<"q_swap">>
    /\ FirstNodes = <<1, 2, 3, 4, 5>>
    /\ Fwd = <<2, 1, 4, 3, 5>>

\* the list holds the elements it held at the start, each with its value,
\* and nothing was allocated or freed
SameElements ==
    /\ Range(Fwd) = Range(FirstNodes)
    /\ Len(Fwd) = Len(first)
    /\ \A i \in 1..Len(first) : value[first[i][1]] = first[i][2]
    /\ \A e \in DOMAIN status : status[e] = "linked" /\ frees[e] = 0
    /\ allocated = IF head = NULL THEN 0 ELSE 1 + 2 * Len(first)

\* C16: q_sort, q_swap and q_reverse only rearrange: after any of them the
\* list holds exactly the elements it held before, none lost, duplicated,
\* created or released, each with its value.
C16_OnlyRearrange ==
    (\A i \in 1..Len(trace) : trace[i] \in {"q_sort", "q_swap", "q_reverse"})
        => SameElements

C16_Witness ==
    /\ Len(trace) = MaxOps
    /\ trace[1] = "q_sort"
    /\ lastOp = "q_reverse"
    /\ Len(Fwd) = MaxXLen
    /\ Fwd # FirstNodes
    /\ Fwd # Reverse(FirstNodes)

\* C19: when list_qsort has returned, the values are non-decreasing from
\* head to tail, the list holds the same elements as before and is a
\* well-formed circular list; a list of length 0 or 1 is left as it was.
C19_QsortContract ==
    (trace # <<>> /\ trace[Len(trace)] = "list_qsort") =>
        /\ IsSorted(FwdValues)
        /\ SameElements
        /\ C4_WellFormed
        /\ (Len(trace) = 1 /\ Len(first) <= 1) => Fwd = FirstNodes

C19_Witness ==
    /\ trace = <<"list_qsort">>
    /\ Len(Fwd) = MaxXLen
    /\ Fwd # FirstNodes
    /\ FwdValues[1] < FwdValues[Len(Fwd)]
    /\ FirstValues[1] > FirstValues[2]

RECURSIVE ChainLen(_, _)
\* the number of nodes of the NULL-terminated sequence that starts at n
ChainLen(nx, n) == IF n = NULL THEN 0 ELSE 1 + ChainLen(nx, nx[n])

\* C17: an iteration of the work-stack loop that pops a sequence of k >= 2
\* nodes cuts it in the middle whatever the values are, pushes the first
\* ceil(k/2) nodes and then the other floor(k/2) nodes, and moves nothing to
\* the runs; and a sequence moved to the runs has at most one node.
C17_PlainSplit ==
    [][(pc = "split" /\ top >= 0) =>
         LET k == ChainLen(next, stack[top + 1])
         IN  /\ k >= 2 =>
                    /\ top' = top + 1
                    /\ listsSize' = listsSize
                    /\ ChainLen(next', stack'[top']) = (k + 1) \div 2
                    /\ ChainLen(next', stack'[top' + 1]) = k \div 2
             /\ listsSize' > listsSize =>
                    ChainLen(next', lists'[listsSize']) <= 1]_vars

Min(a, b) == IF a <= b THEN a ELSE b

\* C18: when q_remove_head / q_remove_tail is given a buffer of c bytes,
\* c >= 0, and removes an element whose string has m bytes, it writes only
\* to the bytes 0..c-1 of the buffer, the buffer then holds the first
\* min(m, c-1) bytes of the string and a zero byte after them, and the
\* string of the element is unchanged; nothing is written when no element
\* is removed.
C18_BufferCopy ==
    [][(lastOp' \in {"q_remove_head", "q_remove_tail"} /\ arg'.sp) =>
         IF head = NULL \/ Fwd = <<>> THEN written' = 0
         ELSE LET e == IF lastOp' = "q_remove_head" THEN Fwd[1]
                       ELSE Fwd[Len(Fwd)]
                  text == Text(value[e])
                  c == arg'.bufsize
                  k == Min(Len(text), c - 1)
              IN  /\ written' <= c
                  /\ Len(buf') = c
                  /\ SubSeq(buf', 1, k) = SubSeq(text, 1, k)
                  /\ buf'[k + 1] = 0
                  /\ value' = value]_vars

====
